---- MODULE Spec2Model ----
(***************************************************************************)
(* A model of epscrapper (src/epscrapper.py): the `scrape` command, the    *)
(* run_scraper coroutine with its session locator, DOM harvest, network    *)
(* capture callback, breadth-first crawl and final de-duplication.         *)
(*                                                                         *)
(* Strings that the code parses (URLs, attribute values) are sequences of  *)
(* tokens, so that urlparse, urljoin, str.startswith and the srcset split  *)
(* are computed on them the way the code computes them on characters.      *)
(***************************************************************************)
EXTENDS Integers, Sequences, FiniteSets, TLC

(***************************************************************************)
(* Bounds of the model.                                                    *)
(***************************************************************************)
\* network request events dispatched during one run
MaxReq == 1
\* page navigations / popups performed by the user while the locator waits
MaxEnv == 2

\* asyncio.sleep(0.5): the clock of the model counts poll intervals, so one
\* second of the `timeout` option is TicksPerSec ticks
TicksPerSec == 2

(***************************************************************************)
(* Tokens and strings.                                                     *)
(***************************************************************************)
Sep == "://"
\* tokens that start with "/" (the first of them ends the netloc)
PathTok == {"/", "/home", "/a", "/b", "/c", "/login", "/x", "/x.js",
            "/i1.jpg", "/i2.jpg", "/api/", "/API/", "/users", "/img.png"}
NoField == "-"
EmptyStr == << >>
AboutBlank == <<"about:", "blank">>

\* str.lower() on one token
Lower(t) ==
  CASE t = "HTTPS" -> "https"
    [] t = "/API/" -> "/api/"
    [] t = "XHR" -> "xhr"
    [] OTHER -> t

\* `"://" in url`
HasSep(u) == \E i \in 1..Len(u) : u[i] = Sep

\* str.startswith
startswith(s, prefix) ==
  /\ Len(prefix) <= Len(s)
  /\ SubSeq(s, 1, Len(prefix)) = prefix

\* str.find from position i: the index of the first token of s in the set T,
\* Len(s) + 1 when there is none
RECURSIVE Find(_, _, _)
Find(s, T, i) ==
  IF i > Len(s) THEN Len(s) + 1
  ELSE IF s[i] \in T THEN i ELSE Find(s, T, i + 1)

\* index of the first path token after the "scheme://" prefix
PathStart(u) == Find(u, PathTok, 3)

\* urllib.parse.urlparse: scheme (lower-cased), netloc and path of a string
urlparse(u) ==
  IF Len(u) >= 2 /\ u[2] = Sep
  THEN [scheme |-> Lower(u[1]),
        netloc |-> SubSeq(u, 3, PathStart(u) - 1),
        path   |-> SubSeq(u, PathStart(u), Len(u))]
  ELSE IF Len(u) >= 1 /\ u[1] = "about:"
  THEN [scheme |-> "about", netloc |-> EmptyStr, path |-> Tail(u)]
  ELSE [scheme |-> "", netloc |-> EmptyStr, path |-> u]

normalize_origin(url) ==
  LET p == urlparse(IF HasSep(url) THEN url ELSE <<"https", Sep>> \o url)
  IN  <<(IF p.scheme # "" THEN p.scheme ELSE "https"), Sep>>
        \o (IF p.netloc # EmptyStr THEN p.netloc ELSE p.path)

is_same_origin(u1, u2) ==
  /\ urlparse(u1).scheme = urlparse(u2).scheme
  /\ urlparse(u1).netloc = urlparse(u2).netloc

\* urllib.parse.urljoin for the references of the model: an absolute URL
\* replaces the base, an empty reference keeps it, an absolute path keeps the
\* base's scheme and netloc
urljoin(base, ref) ==
  IF ref = EmptyStr THEN base
  ELSE IF HasSep(ref) THEN ref
  ELSE IF urlparse(base).scheme \in {"", "about"} THEN ref
  ELSE <<urlparse(base).scheme, Sep>> \o urlparse(base).netloc \o ref

ApiMarkers == {"/api/", "/v1/", "/graphql", "/rest/"}

guess_api_like(resource_type, url) ==
  \/ Lower(resource_type) \in {"xhr", "fetch", "document"}
  \/ LET path == urlparse(url).path
     IN  \E i \in 1..Len(path) : Lower(path[i]) \in ApiMarkers

(***************************************************************************)
(* Page Harvester: collect_dom_links.                                      *)
(***************************************************************************)
SelAttrs ==
  << <<"a", "href">>, <<"link", "href">>, <<"script", "src">>,
     <<"img", "src">>, <<"img", "srcset">>, <<"iframe", "src">>,
     <<"source", "src">>, <<"video", "src">>, <<"audio", "src">>,
     <<"form", "action">>, <<"embed", "src">> >>

\* val.split(","): the segments between the commas
RECURSIVE SplitComma(_)
SplitComma(val) ==
  LET i == Find(val, {","}, 1)
  IN  IF i > Len(val)
      THEN <<val>>
      ELSE <<SubSeq(val, 1, i - 1)>> \o SplitComma(SubSeq(val, i + 1, Len(val)))

RECURSIVE LStrip(_)
LStrip(s) == IF s # EmptyStr /\ Head(s) = " " THEN LStrip(Tail(s)) ELSE s

RECURSIVE RStrip(_)
RStrip(s) ==
  IF s # EmptyStr /\ s[Len(s)] = " " THEN RStrip(SubSeq(s, 1, Len(s) - 1)) ELSE s

\* str.strip()
strip(s) == RStrip(LStrip(s))

\* s.split(" ")[0]
FirstWord(s) == SubSeq(s, 1, Find(s, {" "}, 1) - 1)

\* the candidate references of one attribute value
Candidates(attr, val) ==
  IF attr = "srcset"
  THEN LET NonBlank(v) == strip(v) # EmptyStr
           segs == SelectSeq(SplitComma(val), NonBlank)
       IN  [i \in 1..Len(segs) |-> FirstWord(strip(segs[i]))]
  ELSE <<val>>

\* the resolved references of the elements `elems` (all of one selector), in
\* document order; an empty attribute value is skipped
RECURSIVE ElemRefs(_, _)
ElemRefs(pageurl, elems) ==
  IF elems = << >> THEN << >>
  ELSE LET el == Head(elems)
           cands == IF el.val = EmptyStr THEN << >> ELSE Candidates(el.attr, el.val)
       IN  [i \in 1..Len(cands) |-> [tag |-> el.tag, url |-> urljoin(pageurl, cands[i])]]
             \o ElemRefs(pageurl, Tail(elems))

\* the references of the selectors k..Len(SelAttrs), in the loop's order
RECURSIVE PageRefs(_, _, _)
PageRefs(pageurl, dom, k) ==
  IF k > Len(SelAttrs) THEN << >>
  ELSE LET Match(el) == el.tag = SelAttrs[k][1] /\ el.attr = SelAttrs[k][2]
       IN  ElemRefs(pageurl, SelectSeq(dom, Match)) \o PageRefs(pageurl, dom, k + 1)

DomEp(u) == [url |-> u, source |-> "dom", type |-> NoField, method |-> NoField]

\* mutant: every kept anchor is a crawl link, whatever its origin
collect_dom_links_any_origin(pageurl, dom, base_origin, same_origin) ==
  LET refs == PageRefs(pageurl, dom, 1)
      Keep(r) == ~(same_origin /\ ~is_same_origin(r.url, base_origin))
      kept == SelectSeq(refs, Keep)
  IN  [found |-> [i \in 1..Len(kept) |-> DomEp(kept[i].url)],
       crawl_links |-> {kept[i].url : i \in {j \in 1..Len(kept) : kept[j].tag = "a"}}]

\* collect_dom_links: `found` and the set `crawl_links` (before list())
collect_dom_links(pageurl, dom, base_origin, same_origin) ==
  LET refs == PageRefs(pageurl, dom, 1)
      Keep(r) == ~(same_origin /\ ~is_same_origin(r.url, base_origin))
      kept == SelectSeq(refs, Keep)
  IN  [found |-> [i \in 1..Len(kept) |-> DomEp(kept[i].url)],
       crawl_links |-> {kept[i].url : i \in {j \in 1..Len(kept) :
                          kept[j].tag = "a" /\ is_same_origin(kept[j].url, base_origin)}}]

\* list(s): the elements of a set in an order the hash table decides
ListOf(S) == {f \in [1..Cardinality(S) -> S] : \A i, j \in 1..Cardinality(S) : f[i] = f[j] => i = j}

\* [x for x in xs if x not in ys]
RECURSIVE NotIn(_, _)
NotIn(xs, ys) ==
  IF xs = << >> THEN << >>
  ELSE (IF \E i \in 1..Len(ys) : ys[i] = Head(xs) THEN << >> ELSE <<Head(xs)>>)
         \o NotIn(Tail(xs), ys)

Range(s) == {s[i] : i \in 1..Len(s)}

(***************************************************************************)
(* The web site under test and the browser.                                *)
(***************************************************************************)
El(t, a, v) == [tag |-> t, attr |-> a, val |-> v]

Home  == <<"https", Sep, "app", "/home">>
PageA == <<"https", Sep, "app", "/a">>
PageB == <<"https", Sep, "app", "/b">>
PageC == <<"https", Sep, "app", "/c">>
AppLogin == <<"https", Sep, "app", "/login">>
SsoLogin == <<"https", Sep, "sso", "/login">>
Root == <<"https", Sep, "app", "/">>
EvilX == <<"https", Sep, "app", ".evil", "/x">>
CdnJs == <<"https", Sep, "cdn", "/x.js">>

\* the rendered DOM of a page, in document order; `scrolled` is set for the
\* pass after the scroll probe, which reveals lazily loaded elements
Dom(pageurl, scrolled) ==
  CASE pageurl = Home ->
         << El("a", "href", <<"/a">>), El("script", "src", CdnJs),
            El("a", "href", <<"/b">>), El("a", "href", Home),
            El("a", "href", EmptyStr) >>
         \o (IF scrolled
             THEN << El("img", "srcset",
                        <<"/i1.jpg", " ", "1x", ",", " ", "/i2.jpg", " ", "2x">>) >>
             ELSE << >>)
    [] pageurl = PageA ->
         << El("a", "href", <<"/b">>), El("a", "href", EvilX) >>
         \o (IF scrolled THEN << El("a", "href", <<"/c">>) >> ELSE << >>)
    [] pageurl = PageB ->
         << El("form", "action", <<"/api/", "/users">>), El("a", "href", Home),
            El("a", "href", <<"/a">>) >>
    [] pageurl = PageC ->
         << El("img", "src", <<"/img.png">>) >>
    [] pageurl = Root ->
         << El("a", "href", <<"https", Sep, "app">>), El("a", "href", <<"/c">>) >>
    [] pageurl = EvilX -> << El("a", "href", <<"/a">>) >>
    [] pageurl = AppLogin -> << El("form", "action", <<"/login">>) >>
    [] OTHER -> << >>

\* the URL a successful navigation to `u` ends on
Landing(u) ==
  IF u = <<"https", Sep, "app">> THEN Root ELSE u

\* the requests the pages of the site issue
Req(u, t, m) == [url |-> u, resource_type |-> t, method |-> m]

Requests ==
  { Req(<<"https", Sep, "app", "/API/", "/users">>, "script", "GET"),
    Req(PageA, "document", "GET"),
    Req(CdnJs, "script", "GET") }

(***************************************************************************)
(* State.                                                                  *)
(***************************************************************************)
VARIABLES
  \* the options of the `scrape` command
  login, dashboard, timeout, same_origin, include_static, crawl, has_output,
  \* control: the position of the main flow, the caller of scrape_current_page
  \* and the exception that ended the run
  pc, frame, exc,
  \* the temporary profile directory, its atexit hook, playwright, the context
  profile, atexit_registered, playwright, context,
  \* context.pages (the URL of each open page), the index of `dash` and of the
  \* page passed to scrape_current_page
  pages, dash, cur,
  \* wait_for_dashboard: the clock, `deadline` and the locator's state
  now, deadline, locState, polls,
  \* the "request" listener and the endpoint collection
  listening, endpoints,
  \* locals of scrape_current_page
  dom_endpoints, crawl_links,
  \* the crawl frontier
  visited, queue, url,
  \* the result
  unique_eps, written,
  \* history: the URLs the crawl opened, the seed links and the links returned
  \* by the harvests of crawled pages, the exceptions the crawl loop swallowed,
  \* whether a request of the dashboard page was dispatched with no listener,
  \* the number of request and user events so far, and the number of pages
  \* the context had when capture started
  opened, seeds, linked, crawl_errs, missed_dash, req_count, env_count, base_pages

cfg_vars == <<login, dashboard, timeout, same_origin, include_static, crawl, has_output>>
res_vars == <<profile, atexit_registered, playwright, context>>
loc_vars == <<now, deadline, locState, polls>>
scrape_vars == <<dom_endpoints, crawl_links>>
crawl_vars == <<visited, queue, url>>
out_vars == <<unique_eps, written>>
hist_vars == <<opened, seeds, linked, crawl_errs, missed_dash, req_count, env_count,
              base_pages>>

vars == <<cfg_vars, pc, frame, exc, res_vars, pages, dash, cur, loc_vars,
          listening, endpoints, scrape_vars, crawl_vars, out_vars, hist_vars>>

Logins == {EmptyStr, <<"sso", "/login">>, AppLogin}
Dashboards == {Home, <<"app">>}
\* the option's values in seconds; the locator only runs with a login URL
Timeouts == {-1, 0, 1}
DefaultTimeout == 900

\* lines 176-178
login_url ==
  IF login = EmptyStr THEN EmptyStr
  ELSE IF HasSep(login) THEN login ELSE <<"https", Sep>> \o login

dashboard_url == IF HasSep(dashboard) THEN dashboard ELSE <<"https", Sep>> \o dashboard

base_origin == normalize_origin(dashboard_url)

\* where the user's login flow takes a page, and what a page it opens shows
UserURLs == {Landing(dashboard_url), EvilX}
PopupURLs == {EmptyStr, Landing(dashboard_url)}

Init ==
  /\ login \in Logins
  /\ dashboard \in Dashboards
  /\ timeout \in (IF login = EmptyStr THEN {DefaultTimeout} ELSE Timeouts)
  /\ same_origin \in BOOLEAN
  /\ include_static \in BOOLEAN
  /\ crawl \in BOOLEAN
  /\ has_output \in BOOLEAN
  /\ pc = "scrape"
  /\ frame = "none"
  /\ exc = "none"
  /\ profile = "none"
  /\ atexit_registered = FALSE
  /\ playwright = "none"
  /\ context = "none"
  /\ pages = << >>
  /\ dash = 0
  /\ cur = 0
  /\ now = 0
  /\ deadline = 0
  /\ locState = "Idle"
  /\ polls = 0
  /\ listening = FALSE
  /\ endpoints = << >>
  /\ dom_endpoints = << >>
  /\ crawl_links = << >>
  /\ visited = {}
  /\ queue = << >>
  /\ url = EmptyStr
  /\ unique_eps = << >>
  /\ written = FALSE
  /\ opened = << >>
  /\ seeds = {}
  /\ linked = {}
  /\ crawl_errs = 0
  /\ missed_dash = FALSE
  /\ req_count = 0
  /\ env_count = 0
  /\ base_pages = 0

(***************************************************************************)
(* scrape and the start of run_scraper.                                    *)
(***************************************************************************)
\* mutant: the output paths are not tested before run_scraper is started
ScrapeCmdUnchecked ==
  /\ pc = "scrape"
  /\ pc' = "setup"
  /\ UNCHANGED <<cfg_vars, frame, exc, res_vars, pages, dash, cur, loc_vars, listening,
                 endpoints, scrape_vars, crawl_vars, out_vars, hist_vars>>

\* scrape: without an output path typer.BadParameter ends the command
ScrapeCmd ==
  /\ pc = "scrape"
  /\ IF has_output
     THEN pc' = "setup" /\ exc' = exc
     ELSE pc' = "failed" /\ exc' = "BadParameter"
  /\ UNCHANGED <<cfg_vars, frame, res_vars, pages, dash, cur, loc_vars, listening,
                 endpoints, scrape_vars, crawl_vars, out_vars, hist_vars>>

\* run_scraper up to the first page: the temporary profile, its atexit hook,
\* playwright, the persistent context and its first page
Setup ==
  /\ pc = "setup"
  /\ profile' = "present"
  /\ atexit_registered' = TRUE
  /\ playwright' = "running"
  /\ context' = "open"
  /\ pages' = <<AboutBlank>>
  /\ pc' = "goto0"
  /\ UNCHANGED <<cfg_vars, frame, exc, dash, cur, loc_vars, listening, endpoints,
                 scrape_vars, crawl_vars, out_vars, hist_vars>>

\* page.goto(login_url) and the entry of wait_for_dashboard, or
\* page.goto(dashboard_url); a navigation error propagates
GotoInitial ==
  /\ pc = "goto0"
  /\ \/ /\ login_url # EmptyStr
        /\ pages' = [pages EXCEPT ![1] = Landing(login_url)]
        /\ deadline' = now + timeout * TicksPerSec
        /\ locState' = "Waiting"
        /\ pc' = "loc_check"
        /\ UNCHANGED <<dash, exc>>
     \/ /\ login_url = EmptyStr
        /\ pages' = [pages EXCEPT ![1] = Landing(dashboard_url)]
        /\ dash' = 1
        /\ pc' = "ready"
        /\ UNCHANGED <<deadline, locState, exc>>
     \/ /\ exc' = "NavigationError"
        /\ pc' = "unwind"
        /\ UNCHANGED <<pages, dash, deadline, locState>>
  /\ UNCHANGED <<cfg_vars, frame, res_vars, cur, now, polls, listening, endpoints,
                 scrape_vars, crawl_vars, out_vars, hist_vars>>

(***************************************************************************)
(* Session Locator: wait_for_dashboard.                                    *)
(***************************************************************************)
\* the test of lines 41-43 on one page
PageMatches(pageurl, expected_url) ==
  /\ pageurl # EmptyStr
  /\ \/ is_same_origin(pageurl, normalize_origin(expected_url))
     \/ startswith(pageurl, expected_url)

\* the for loop from page i on: the index of the page it returns, 0 when it
\* ends without a match
RECURSIVE FoundFrom(_, _, _)
FoundFrom(ps, expected_url, i) ==
  IF i > Len(ps) THEN 0
  ELSE IF PageMatches(ps[i], expected_url) THEN i
  ELSE FoundFrom(ps, expected_url, i + 1)

\* mutant: the last matching page is returned
FoundPageLast(ps, expected_url) ==
  IF \A i \in 1..Len(ps) : ~PageMatches(ps[i], expected_url) THEN 0
  ELSE Len(ps) + 1 - FoundFrom([i \in 1..Len(ps) |-> ps[Len(ps) + 1 - i]], expected_url, 1)

FoundPage(ps, expected_url) == FoundFrom(ps, expected_url, 1)

\* mutant: the loop still runs at the deadline
BeforeOrAtDeadline(t, d) == t <= d

\* the loop condition
BeforeDeadline(t, d) == t < d

\* one evaluation of the while condition and, when it holds, one pass of the
\* for loop over context.pages (no suspension point lies between them)
LocPoll ==
  /\ pc = "loc_check"
  /\ IF BeforeDeadline(now, deadline)
     THEN /\ polls' = polls + 1
          /\ IF FoundPage(pages, dashboard_url) # 0
             THEN /\ dash' = FoundPage(pages, dashboard_url)
                  /\ locState' = "Found"
                  /\ pc' = "ready"
             ELSE /\ pc' = "loc_sleep"
                  /\ UNCHANGED <<dash, locState>>
          /\ exc' = exc
     ELSE /\ locState' = "TimedOut"
          /\ exc' = "TimeoutError"
          /\ pc' = "unwind"
          /\ UNCHANGED <<dash, polls>>
  /\ UNCHANGED <<cfg_vars, frame, res_vars, pages, cur, now, deadline, listening,
                 endpoints, scrape_vars, crawl_vars, out_vars, hist_vars>>

\* mutant: the locator sleeps two seconds between polls
SleepLate == TicksPerSec * 2

\* the time asyncio.sleep(0.5) takes, in ticks
SleepTicks == TicksPerSec \div 2

\* await asyncio.sleep(0.5)
LocSleep ==
  /\ pc = "loc_sleep"
  /\ now' = now + SleepTicks
  /\ pc' = "loc_check"
  /\ UNCHANGED <<cfg_vars, frame, exc, res_vars, pages, dash, cur, deadline, locState,
                 polls, listening, endpoints, scrape_vars, crawl_vars, out_vars,
                 hist_vars>>

\* while the locator sleeps the user logs in: a page navigates
EnvNavigate ==
  /\ pc = "loc_sleep"
  /\ env_count < MaxEnv
  /\ \E i \in 1..Len(pages), u \in UserURLs :
       /\ pages[i] # u
       /\ pages' = [pages EXCEPT ![i] = u]
  /\ env_count' = env_count + 1
  /\ UNCHANGED <<cfg_vars, pc, frame, exc, res_vars, dash, cur, loc_vars, listening,
                 endpoints, scrape_vars, crawl_vars, out_vars, opened, seeds, linked,
                 crawl_errs, missed_dash, req_count, base_pages>>

\* ... or the login flow opens another page
EnvPopup ==
  /\ pc = "loc_sleep"
  /\ env_count < MaxEnv
  /\ \E u \in PopupURLs : pages' = Append(pages, u)
  /\ env_count' = env_count + 1
  /\ UNCHANGED <<cfg_vars, pc, frame, exc, res_vars, dash, cur, loc_vars, listening,
                 endpoints, scrape_vars, crawl_vars, out_vars, opened, seeds, linked,
                 crawl_errs, missed_dash, req_count, base_pages>>

(***************************************************************************)
(* Network Capture: on_request.                                            *)
(***************************************************************************)
NetEp(req) ==
  [url |-> req.url, source |-> "network", type |-> req.resource_type,
   method |-> req.method]

\* mutant: the callback does not test the origin
CapturedAnyOrigin(req) ==
  ~(~include_static /\ ~guess_api_like(req.resource_type, req.url))

\* mutant: the callback does not test the kind of the request
CapturedStatic(req) ==
  ~(same_origin /\ ~is_same_origin(req.url, base_origin))

\* whether on_request appends the request
Captured(req) ==
  /\ ~(same_origin /\ ~is_same_origin(req.url, base_origin))
  /\ ~(~include_static /\ ~guess_api_like(req.resource_type, req.url))

\* mutant: the callback replaces the collection by the new endpoint
OnRequestOverwrite(eps, req) == IF Captured(req) THEN <<NetEp(req)>> ELSE eps

\* the endpoint collection after on_request(req)
on_request(eps, req) == IF Captured(req) THEN Append(eps, NetEp(req)) ELSE eps

\* the positions at which the main flow is suspended in an await, so that the
\* event loop dispatches the browser's events
AwaitPcs == {"loc_sleep", "ready", "h1", "scroll", "h2", "c_goto", "c_close", "close"}

\* page i of the context issues a request; the listener, when attached, runs
NetRequest ==
  /\ context = "open"
  /\ pc \in AwaitPcs
  /\ req_count < MaxReq
  /\ \E i \in 1..Len(pages), req \in Requests :
       /\ endpoints' = IF listening THEN on_request(endpoints, req) ELSE endpoints
       /\ missed_dash' = (missed_dash \/ (~listening /\ pages[i] = Landing(dashboard_url)))
  /\ req_count' = req_count + 1
  /\ UNCHANGED <<cfg_vars, pc, frame, exc, res_vars, pages, dash, cur, loc_vars,
                 listening, scrape_vars, crawl_vars, out_vars, opened, seeds, linked,
                 crawl_errs, env_count, base_pages>>

\* bring_to_front or the end of goto, the prompt, input(), and context.on
StartCapture ==
  /\ pc = "ready"
  /\ listening' = TRUE
  /\ frame' = "dash"
  /\ cur' = dash
  /\ pc' = "h1"
  /\ base_pages' = Len(pages)
  /\ UNCHANGED <<cfg_vars, exc, res_vars, pages, dash, loc_vars, endpoints,
                 scrape_vars, crawl_vars, out_vars, opened, seeds, linked, crawl_errs,
                 missed_dash, req_count, env_count>>

(***************************************************************************)
(* scrape_current_page, called for the dashboard and for each crawled page. *)
(***************************************************************************)
\* first collect_dom_links
ScrapePass1 ==
  /\ pc = "h1"
  /\ LET r == collect_dom_links(pages[cur], Dom(pages[cur], FALSE), base_origin, same_origin)
     IN  /\ dom_endpoints' = r.found
         /\ crawl_links' \in ListOf(r.crawl_links)
  /\ pc' = "scroll"
  /\ UNCHANGED <<cfg_vars, frame, exc, res_vars, pages, dash, cur, loc_vars, listening,
                 endpoints, crawl_vars, out_vars, hist_vars>>

\* wheel down, the dwell sleep, wheel up
ScrapeScroll ==
  /\ pc = "scroll"
  /\ pc' = "h2"
  /\ UNCHANGED <<cfg_vars, frame, exc, res_vars, pages, dash, cur, loc_vars, listening,
                 endpoints, scrape_vars, crawl_vars, out_vars, hist_vars>>

\* mutant: the links of a crawled page are queued without any test
EnqueueUnchecked(q, links, vis) == q \o links

\* for l in sub_links: if l not in visited and l not in queue: queue.append(l)
RECURSIVE Enqueue(_, _, _)
Enqueue(q, links, vis) ==
  IF links = << >> THEN q
  ELSE Enqueue(IF Head(links) \notin vis /\ Head(links) \notin Range(q)
               THEN Append(q, Head(links)) ELSE q,
               Tail(links), vis)

\* mutant: the seed links are queued without the test against visited
InitialQueueUnfiltered(links, vis) == links

\* the initial frontier
InitialQueue(links, vis) ==
  LET Fresh(l) == l \notin vis IN SelectSeq(links, Fresh)

\* the second collect_dom_links and the return to run_scraper, which extends
\* the endpoint collection and (dashboard) builds or (crawl) extends the frontier
ScrapePass2 ==
  /\ pc = "h2"
  /\ LET r == collect_dom_links(pages[cur], Dom(pages[cur], TRUE), base_origin, same_origin)
     IN  \E more_links \in ListOf(r.crawl_links) :
           LET eps == dom_endpoints \o r.found
               links == crawl_links \o NotIn(more_links, crawl_links)
           IN  /\ endpoints' = endpoints \o eps
               /\ IF frame = "dash"
                  THEN /\ seeds' = Range(links)
                       /\ IF crawl
                          THEN /\ visited' = {dashboard_url}
                               /\ queue' = InitialQueue(links, {dashboard_url})
                               /\ pc' = "crawl_head"
                          ELSE /\ pc' = "close"
                               /\ UNCHANGED <<visited, queue>>
                       /\ UNCHANGED linked
                  ELSE /\ queue' = Enqueue(queue, links, visited)
                       /\ linked' = linked \cup Range(links)
                       /\ pc' = "c_close"
                       /\ UNCHANGED <<visited, seeds>>
  /\ dom_endpoints' = << >>
  /\ crawl_links' = << >>
  /\ UNCHANGED <<cfg_vars, frame, exc, res_vars, pages, dash, cur, loc_vars, listening,
                 url, out_vars, opened, crawl_errs, missed_dash, req_count, env_count,
                 base_pages>>

\* mutant: the crawl's call has no handler either
ScrapeFailPropagates ==
  /\ pc \in {"h1", "scroll", "h2"}
  /\ exc' = "HarvestError"
  /\ pc' = "unwind"
  /\ crawl_errs' = IF frame = "crawl" THEN crawl_errs + 1 ELSE crawl_errs
  /\ dom_endpoints' = << >>
  /\ crawl_links' = << >>
  /\ UNCHANGED <<cfg_vars, frame, res_vars, pages, dash, cur, loc_vars, listening,
                 endpoints, crawl_vars, out_vars, opened, seeds, linked, missed_dash,
                 req_count, env_count, base_pages>>

\* mutant: the crawl's handler has no finally clause, a failed page stays open
ScrapeFailNoFinally ==
  /\ pc \in {"h1", "scroll", "h2"}
  /\ IF frame = "dash"
     THEN /\ exc' = "HarvestError"
          /\ pc' = "unwind"
          /\ UNCHANGED crawl_errs
     ELSE /\ crawl_errs' = crawl_errs + 1
          /\ pc' = "crawl_head"
          /\ UNCHANGED exc
  /\ dom_endpoints' = << >>
  /\ crawl_links' = << >>
  /\ UNCHANGED <<cfg_vars, frame, res_vars, pages, dash, cur, loc_vars, listening,
                 endpoints, crawl_vars, out_vars, opened, seeds, linked, missed_dash,
                 req_count, env_count, base_pages>>

\* mutant: the handler of the crawl keeps what the first pass had found
ScrapeFailKeepsFirstPass ==
  /\ pc \in {"h1", "scroll", "h2"}
  /\ IF frame = "dash"
     THEN /\ exc' = "HarvestError"
          /\ pc' = "unwind"
          /\ UNCHANGED <<crawl_errs, endpoints>>
     ELSE /\ crawl_errs' = crawl_errs + 1
          /\ pc' = "c_close"
          /\ endpoints' = endpoints \o dom_endpoints
          /\ UNCHANGED exc
  /\ dom_endpoints' = << >>
  /\ crawl_links' = << >>
  /\ UNCHANGED <<cfg_vars, frame, res_vars, pages, dash, cur, loc_vars, listening,
                 crawl_vars, out_vars, opened, seeds, linked, missed_dash,
                 req_count, env_count, base_pages>>

\* a DOM query or the scroll raises: the dashboard call has no handler, the
\* crawl's call is inside try/except Exception
ScrapeFail ==
  /\ pc \in {"h1", "scroll", "h2"}
  /\ IF frame = "dash"
     THEN /\ exc' = "HarvestError"
          /\ pc' = "unwind"
          /\ UNCHANGED crawl_errs
     ELSE /\ crawl_errs' = crawl_errs + 1
          /\ pc' = "c_close"
          /\ UNCHANGED exc
  /\ dom_endpoints' = << >>
  /\ crawl_links' = << >>
  /\ UNCHANGED <<cfg_vars, frame, res_vars, pages, dash, cur, loc_vars, listening,
                 endpoints, crawl_vars, out_vars, opened, seeds, linked, missed_dash,
                 req_count, env_count, base_pages>>

(***************************************************************************)
(* Crawl Coordinator.                                                      *)
(***************************************************************************)
\* mutant: the popped URL is not recorded as visited
MarkVisitedNot(vis, u) == vis

\* visited.add(url)
MarkVisited(vis, u) == vis \cup {u}

\* the loop head: the test of the queue, the pop, the visited test and
\* context.new_page()
CrawlHead ==
  /\ pc = "crawl_head"
  /\ IF queue = << >>
     THEN /\ pc' = "close"
          /\ UNCHANGED <<queue, url, visited, pages, cur, frame>>
     ELSE /\ url' = Head(queue)
          /\ queue' = Tail(queue)
          /\ IF Head(queue) \in visited
             THEN UNCHANGED <<pc, visited, pages, cur, frame>>
             ELSE /\ visited' = MarkVisited(visited, Head(queue))
                  /\ pages' = Append(pages, AboutBlank)
                  /\ cur' = Len(pages) + 1
                  /\ frame' = "crawl"
                  /\ pc' = "c_goto"
  /\ UNCHANGED <<cfg_vars, exc, res_vars, dash, loc_vars, listening, endpoints,
                 scrape_vars, out_vars, hist_vars>>

\* page.goto(url) inside the try
CrawlGoto ==
  /\ pc = "c_goto"
  /\ opened' = Append(opened, url)
  /\ \/ /\ pages' = [pages EXCEPT ![cur] = Landing(url)]
        /\ pc' = "h1"
        /\ UNCHANGED crawl_errs
     \/ /\ crawl_errs' = crawl_errs + 1
        /\ pc' = "c_close"
        /\ UNCHANGED pages
  /\ UNCHANGED <<cfg_vars, frame, exc, res_vars, dash, cur, loc_vars, listening,
                 endpoints, scrape_vars, crawl_vars, out_vars, seeds, linked,
                 missed_dash, req_count, env_count, base_pages>>

\* finally: page.close()
CrawlClose ==
  /\ pc = "c_close"
  /\ pages' = SubSeq(pages, 1, cur - 1) \o SubSeq(pages, cur + 1, Len(pages))
  /\ cur' = 0
  /\ pc' = "crawl_head"
  /\ UNCHANGED <<cfg_vars, frame, exc, res_vars, dash, loc_vars, listening, endpoints,
                 scrape_vars, crawl_vars, out_vars, hist_vars>>

(***************************************************************************)
(* The end of the run.                                                     *)
(***************************************************************************)
\* await context.close()
CloseContext ==
  /\ pc = "close"
  /\ context' = "closed"
  /\ pc' = "pw_exit"
  /\ UNCHANGED <<cfg_vars, frame, exc, profile, atexit_registered, playwright, pages,
                 dash, cur, loc_vars, listening, endpoints, scrape_vars, crawl_vars,
                 out_vars, hist_vars>>

\* the exit of `async with async_playwright()`, normal or by an exception:
\* playwright stops and takes the browser with it
StopPlaywright ==
  /\ pc \in {"pw_exit", "unwind"}
  /\ playwright' = "stopped"
  /\ context' = IF playwright = "running" THEN "closed" ELSE context
  /\ pc' = IF pc = "pw_exit" THEN "dedup" ELSE "failed"
  /\ UNCHANGED <<cfg_vars, frame, exc, profile, atexit_registered, pages, dash, cur,
                 loc_vars, listening, endpoints, scrape_vars, crawl_vars, out_vars,
                 hist_vars>>

\* mutant: the last occurrence of a url wins
RECURSIVE DedupKeepLast(_)
DedupKeepLast(eps) ==
  IF eps = << >> THEN << >>
  ELSE IF \E i \in 2..Len(eps) : eps[i].url = Head(eps).url
       THEN DedupKeepLast(Tail(eps))
       ELSE <<Head(eps)>> \o DedupKeepLast(Tail(eps))

\* the loop of lines 250-253 from position 1 with `seen`
RECURSIVE DedupFrom(_, _)
DedupFrom(eps, seen) ==
  IF eps = << >> THEN << >>
  ELSE IF Head(eps).url \in seen
       THEN DedupFrom(Tail(eps), seen)
       ELSE <<Head(eps)>> \o DedupFrom(Tail(eps), seen \cup {Head(eps).url})

\* mutant: one pass drops only the second occurrence of each url
DedupOnce(eps) ==
  LET Earlier(i) == Cardinality({j \in 1..(i - 1) : eps[j].url = eps[i].url})
      keep == {i \in 1..Len(eps) : Earlier(i) # 1}
      Nth(n) == CHOOSE i \in keep : Cardinality({j \in keep : j < i}) = n - 1
  IN  [n \in 1..Cardinality(keep) |-> eps[Nth(n)]]

\* seen = set(), unique_eps = [], and the loop over all of `endpoints`
Unique(eps) == DedupFrom(eps, {})

Dedup ==
  /\ pc = "dedup"
  /\ unique_eps' = Unique(endpoints)
  /\ pc' = "write"
  /\ UNCHANGED <<cfg_vars, frame, exc, res_vars, pages, dash, cur, loc_vars, listening,
                 endpoints, scrape_vars, crawl_vars, written, hist_vars>>

\* the output files and the summary table
WriteOutputs ==
  /\ pc = "write"
  /\ written' = TRUE
  /\ pc' = "returned"
  /\ UNCHANGED <<cfg_vars, frame, exc, res_vars, pages, dash, cur, loc_vars, listening,
                 endpoints, scrape_vars, crawl_vars, unique_eps, hist_vars>>

\* mutant: no atexit hook removes the profile directory
ProcessExitNoHook ==
  /\ pc \in {"returned", "failed"}
  /\ pc' = "exited"
  /\ UNCHANGED <<cfg_vars, frame, exc, res_vars, pages, dash, cur, loc_vars, listening,
                 endpoints, scrape_vars, crawl_vars, out_vars, hist_vars>>

\* the interpreter exits, after the return of asyncio.run or with the
\* exception: the atexit hooks run
ProcessExit ==
  /\ pc \in {"returned", "failed"}
  /\ profile' = IF atexit_registered /\ profile = "present" THEN "removed" ELSE profile
  /\ pc' = "exited"
  /\ UNCHANGED <<cfg_vars, frame, exc, atexit_registered, playwright, context, pages,
                 dash, cur, loc_vars, listening, endpoints, scrape_vars, crawl_vars,
                 out_vars, hist_vars>>

Next ==
  \/ ScrapeCmd
  \/ Setup
  \/ GotoInitial
  \/ LocPoll
  \/ LocSleep
  \/ EnvNavigate
  \/ EnvPopup
  \/ NetRequest
  \/ StartCapture
  \/ ScrapePass1
  \/ ScrapeScroll
  \/ ScrapePass2
  \/ ScrapeFail
  \/ CrawlHead
  \/ CrawlGoto
  \/ CrawlClose
  \/ CloseContext
  \/ StopPlaywright
  \/ Dedup
  \/ WriteOutputs
  \/ ProcessExit

Spec == Init /\ [][Next]_vars

PcValues ==
  {"scrape", "setup", "goto0", "loc_check", "loc_sleep", "ready", "h1", "scroll",
   "h2", "crawl_head", "c_goto", "c_close", "close", "pw_exit", "dedup", "write",
   "returned", "unwind", "failed", "exited"}

\* the main flow moves on: every step that changes pc is a step of the program
\* (the events of the browser and of the user leave it alone)
Advance == pc # "exited" /\ pc' \in PcValues

\* the event loop resumes the coroutine whenever the operation it awaits
\* completes or raises, so the main flow does not stay at one position for ever
FairSpec == Spec /\ WF_pc(Advance)

(***************************************************************************)
(* Properties.                                                             *)
(***************************************************************************)
Count(seq, x) == Cardinality({i \in 1..Len(seq) : seq[i] = x})

IsPrefix(a, b) == Len(a) <= Len(b) /\ SubSeq(b, 1, Len(a)) = a

\* scheme and host[:port] of a URL
OriginOf(u) == <<urlparse(u).scheme, urlparse(u).netloc>>

\* the crawl loop has been left
CrawlDone == crawl /\ pc \in {"close", "pw_exit", "dedup", "write", "returned", "exited"}
                   /\ exc = "none"

\* the aggregator has run
DedupDone == pc \in {"write", "returned"} \/ (pc = "exited" /\ written)

\* C1: no request issued by the dashboard page is dispatched while no
\* listener is attached (capture is attached before the dashboard is loaded)
C1_NoDashboardRequestMissed == ~missed_dash

\* C2 as stated: when the crawl loop has ended, every URL among the seed links
\* and the links of successfully harvested pages has been opened exactly once
C2_EveryReachableOpenedOnce ==
  CrawlDone => \A u \in seeds \cup linked : Count(opened, u) = 1

\* C2 as amended: the crawl loop terminates, and when it has ended every URL
\* among the seed links and the links of successfully harvested pages, other
\* than the dashboard URL, has been opened exactly once; the dashboard URL has
\* not been opened by the crawl
C2_CrawlTerminatesOpenedOnce ==
  /\ (pc = "crawl_head") ~> (pc = "close")
  /\ [](CrawlDone => /\ \A u \in (seeds \cup linked) \ {dashboard_url} :
                         Count(opened, u) = 1
                      /\ Count(opened, dashboard_url) = 0)

C2_Witness ==
  /\ CrawlDone
  /\ dashboard_url \in linked
  /\ crawl_errs > 0
  /\ Len(opened) >= 3

\* C3: when the process has exited, on every path, the browser context is no
\* longer open, playwright is not running and the profile directory is gone
C3_SessionReleased ==
  pc = "exited" => /\ profile # "present"
                   /\ context # "open"
                   /\ playwright # "running"

C3_Witness ==
  /\ pc = "exited"
  /\ exc = "TimeoutError"
  /\ profile = "removed"
  /\ context = "closed"

\* C4: the result holds each discovered url exactly once, with the record of
\* the url's first occurrence, in the order of the first occurrences
C4_DedupFirstSeen ==
  DedupDone =>
    /\ \A i, j \in 1..Len(unique_eps) : unique_eps[i].url = unique_eps[j].url => i = j
    /\ \A i \in 1..Len(endpoints) : \E k \in 1..Len(unique_eps) :
         unique_eps[k].url = endpoints[i].url
    /\ \A k \in 1..Len(unique_eps) : \E i \in 1..Len(endpoints) :
         /\ endpoints[i] = unique_eps[k]
         /\ \A j \in 1..(i - 1) : endpoints[j].url # endpoints[i].url
    /\ \A k, l \in 1..Len(unique_eps) : k < l =>
         \E i, j \in 1..Len(endpoints) :
           /\ i < j
           /\ endpoints[i] = unique_eps[k]
           /\ endpoints[j].url = unique_eps[l].url
           /\ \A h \in 1..(j - 1) : endpoints[h].url # endpoints[j].url

C4_Witness ==
  /\ DedupDone
  /\ Len(unique_eps) >= 2
  /\ \E i, j \in 1..Len(endpoints) :
       /\ i < j
       /\ endpoints[i].url = endpoints[j].url
       /\ endpoints[i].source = "network"
       /\ endpoints[j].source = "dom"

\* C5: a DOM query failure during the harvest of the dashboard page does not
\* abort the run: the run ends with the output artifacts written
C5_DashboardHarvestFailureRecovered ==
  (pc = "exited" /\ exc = "HarvestError") => written

\* C6: an exception raised by the navigation or the harvest of a crawled page
\* is swallowed: the step leaves the queue and the endpoint collection as
\* they are and goes on to close the page, the loop head follows with the
\* same queue, and the run is not aborted
C6_CrawlFailureIsolated ==
  /\ [][crawl_errs' > crawl_errs =>
          /\ pc' = "c_close"
          /\ queue' = queue
          /\ endpoints' = endpoints
          /\ exc' = "none"]_vars
  /\ [][(pc = "c_close" /\ pc' # pc) =>
          /\ pc' = "crawl_head"
          /\ queue' = queue
          /\ IsPrefix(endpoints, endpoints')]_vars
  /\ [](crawl_errs > 0 => /\ pc \notin {"unwind", "failed"}
                          /\ (pc = "exited" => written))

C6_Witness ==
  /\ crawl_errs > 0
  /\ pc = "h1"
  /\ frame = "crawl"
  /\ endpoints # << >>
  /\ Len(opened) >= 2

\* C7: with the same-origin restriction no endpoint, collected or emitted, and
\* no queued URL has a scheme or host[:port] other than the dashboard's
C7_SameOriginOnly ==
  same_origin =>
    /\ \A i \in 1..Len(endpoints) : OriginOf(endpoints[i].url) = OriginOf(dashboard_url)
    /\ \A i \in 1..Len(unique_eps) : OriginOf(unique_eps[i].url) = OriginOf(dashboard_url)
    /\ \A i \in 1..Len(queue) : OriginOf(queue[i]) = OriginOf(dashboard_url)

C7_Witness ==
  /\ same_origin
  /\ written
  /\ Len(opened) >= 3
  /\ \E i \in 1..Len(unique_eps) : unique_eps[i].source = "network"
  /\ \E i \in 1..Len(unique_eps) : unique_eps[i].source = "dom"

\* the claim's test of a page against the target
MatchesTarget(pageurl) ==
  /\ pageurl # EmptyStr
  /\ \/ OriginOf(pageurl) = OriginOf(dashboard_url)
     \/ startswith(pageurl, dashboard_url)

\* C8: a page returned as Found matches the target and no page before it in
\* context.pages does; a poll at which some page matches ends in Found
C8_FoundFirstMatch ==
  /\ [](locState = "Found" =>
          /\ dash \in 1..Len(pages)
          /\ MatchesTarget(pages[dash])
          /\ \A j \in 1..(dash - 1) : ~MatchesTarget(pages[j]))
  /\ [][(pc = "loc_check" /\ now < deadline
          /\ \E i \in 1..Len(pages) : MatchesTarget(pages[i]))
        => locState' = "Found"]_vars
  /\ [][locState' = "Found" /\ locState # "Found" => polls' = polls + 1]_vars

C8_Witness ==
  /\ locState = "Found"
  /\ pc = "ready"
  /\ \E j \in (dash + 1)..Len(pages) : MatchesTarget(pages[j])

C8_WitnessPrefix ==
  /\ locState = "Found"
  /\ dash >= 2
  /\ OriginOf(pages[dash]) # OriginOf(dashboard_url)

\* C9 as stated: TimedOut is reported not before the deadline and at most one
\* poll interval after it
C9_TimedOutWithinOnePoll ==
  locState = "TimedOut" => /\ now >= deadline
                           /\ now <= deadline + TicksPerSec \div 2

\* C9 as amended: the locator leaves Waiting; TimedOut is reported not before
\* the deadline, at most one poll interval after it when the timeout is not
\* negative and without any poll when it is negative; a poll at which some
\* page matches does not end in TimedOut, and TimedOut is reported by the loop
\* condition, not by a poll
C9_LocatorLeavesWaiting ==
  /\ (locState = "Waiting") ~> (locState \in {"Found", "TimedOut"})
  /\ [](locState = "TimedOut" =>
          /\ now >= deadline
          /\ (timeout >= 0 => now <= deadline + TicksPerSec \div 2)
          /\ (timeout < 0 => polls = 0 /\ now = deadline - timeout * TicksPerSec)
          /\ exc = "TimeoutError")
  /\ [][(pc = "loc_check" /\ \E i \in 1..Len(pages) : MatchesTarget(pages[i])
          /\ now < deadline)
        => locState' # "TimedOut"]_vars
  /\ [][locState' = "TimedOut" /\ locState # "TimedOut" => polls' = polls]_vars

C9_Witness ==
  /\ locState = "TimedOut"
  /\ timeout > 0
  /\ polls = timeout * TicksPerSec
  /\ env_count > 0

\* C10: the crawl opens the pages in the order /a, /b, /c: the seed links in
\* the order of the anchors on the dashboard page, then the links found on
\* crawled pages
C10_CrawlOrderFollowsDocument ==
  (dashboard_url = Home /\ crawl) =>
    \A i \in 1..Len(opened) : i <= 3 /\ opened[i] = <<PageA, PageB, PageC>>[i]

\* C11: whatever the interleaving of request callbacks with the main flow, no
\* append is lost or overwritten: each step leaves the endpoints collected so
\* far in place, a callback that captures a request appends its endpoint, the
\* return of a harvest appends the whole batch of both passes, and the result
\* of the aggregator holds the url of every endpoint collected
C11_NoAppendLost ==
  /\ [][IsPrefix(endpoints, endpoints')]_vars
  /\ [][(req_count' > req_count /\ listening) =>
          \E req \in Requests :
            /\ endpoints' = on_request(endpoints, req)
            /\ (Captured(req) => endpoints' = Append(endpoints, NetEp(req)))]_vars
  /\ [][(pc = "h2" /\ pc' \in {"crawl_head", "close", "c_close"} /\ crawl_errs' = crawl_errs) =>
          /\ IsPrefix(endpoints \o dom_endpoints, endpoints')
          /\ \A i \in (Len(endpoints) + 1)..Len(endpoints') : endpoints'[i].source = "dom"]_vars
  /\ [](DedupDone => \A i \in 1..Len(endpoints) :
                       \E k \in 1..Len(unique_eps) : unique_eps[k].url = endpoints[i].url)

\* a request was captured between the two passes of a harvest, and another
\* harvest's batch followed
C11_Witness ==
  /\ DedupDone
  /\ \E i, j, k \in 1..Len(endpoints) :
       /\ i < j /\ j < k
       /\ endpoints[i].source = "dom"
       /\ endpoints[j].source = "network"
       /\ endpoints[k].source = "dom"
       /\ \E h \in 1..Len(unique_eps) : unique_eps[h] = endpoints[j]

\* the claim's test of a request, read literally: the kind and the path as
\* they are
ApiLikeLiteral(type, u) ==
  \/ type \in {"xhr", "fetch", "document"}
  \/ \E i \in 1..Len(urlparse(u).path) : urlparse(u).path[i] \in ApiMarkers

\* the same test with the kind and the path compared without regard to case
ApiLikeAnyCase(type, u) ==
  \/ Lower(type) \in {"xhr", "fetch", "document"}
  \/ \E i \in 1..Len(urlparse(u).path) : Lower(urlparse(u).path[i]) \in ApiMarkers

\* C12 as stated: in API-only mode every network endpoint has a kind in
\* {xhr, fetch, document} or a path containing one of the API markers
C12_ApiOnlyLiteral ==
  ~include_static =>
    \A i \in 1..Len(endpoints) :
      endpoints[i].source = "network" =>
        ApiLikeLiteral(endpoints[i].type, endpoints[i].url)

\* C12 as amended: in API-only mode every network endpoint has a kind in
\* {xhr, fetch, document} or a path containing one of the API markers, both
\* compared without regard to case; a request for which neither holds is not
\* appended by the callback
C12_ApiOnlyAnyCase ==
  /\ [](~include_static =>
          \A i \in 1..Len(endpoints) :
            endpoints[i].source = "network" =>
              ApiLikeAnyCase(endpoints[i].type, endpoints[i].url))
  /\ [][(~include_static /\ req_count' > req_count) =>
          \/ endpoints' = endpoints
          \/ \E req \in Requests :
               /\ ApiLikeAnyCase(req.resource_type, req.url)
               /\ endpoints' = Append(endpoints, NetEp(req))]_vars

\* an API-only run whose result holds a request of kind script, captured for
\* the marker in its path
C12_Witness ==
  /\ ~include_static
  /\ written
  /\ \E i \in 1..Len(unique_eps) :
       /\ unique_eps[i].source = "network"
       /\ unique_eps[i].type = "script"

\* C13: without an output path the command ends with the configuration error
\* and nothing else: no temporary profile, no playwright, no browser context,
\* no page, no navigation and no listener at any point of the run
C13_NoOutputFailsBeforeBrowser ==
  ~has_output =>
    /\ pc \in {"scrape", "failed", "exited"}
    /\ (pc # "scrape" => exc = "BadParameter")
    /\ profile = "none"
    /\ ~atexit_registered
    /\ playwright = "none"
    /\ context = "none"
    /\ pages = << >>
    /\ ~listening
    /\ opened = << >>
    /\ ~written

C13_Witness ==
  /\ ~has_output
  /\ pc = "exited"
  /\ exc = "BadParameter"
  /\ profile = "none"
  /\ login # EmptyStr

\* C14: the aggregator's dedup is idempotent: applied to its own output it
\* returns that output, record for record and in the same order, and applied
\* again to the same input it returns the same result
C14_DedupIdempotent ==
  /\ Unique(Unique(endpoints)) = Unique(endpoints)
  /\ (DedupDone => /\ Unique(unique_eps) = unique_eps
                   /\ Unique(endpoints) = unique_eps)

\* the input held one url three times, from the callback and from both passes
\* of a harvest
C14_Witness ==
  /\ DedupDone
  /\ \E i, j, k \in 1..Len(endpoints) :
       /\ i < j /\ j < k
       /\ endpoints[i].url = endpoints[j].url
       /\ endpoints[j].url = endpoints[k].url
       /\ endpoints[i].source # endpoints[k].source
  /\ Len(unique_eps) >= 3

\* C15: the queue never holds a URL twice; visited only grows; a URL that
\* leaves the queue is in visited from then on, and a URL that enters the
\* queue is not in visited and has not been opened, so that no URL enters the
\* queue a second time
C15_QueueOnceVisitedGrows ==
  /\ [](\A i, j \in 1..Len(queue) : queue[i] = queue[j] => i = j)
  /\ [][visited \subseteq visited']_vars
  /\ [][(pc = "crawl_head" /\ queue # << >>) =>
          /\ queue' = Tail(queue)
          /\ Head(queue) \in visited']_vars
  /\ [][\A u \in Range(queue') \ Range(queue) :
          /\ u \notin visited'
          /\ u \notin Range(opened)]_vars

\* a crawled page linked to a URL that had already left the queue, and the
\* frontier is not empty
C15_Witness ==
  /\ pc = "crawl_head"
  /\ queue # << >>
  /\ Cardinality(visited) >= 3
  /\ (linked \cap visited) \ {dashboard_url} # {}

\* the pages the crawl has opened and not closed
CrawlPagesOpen == Len(pages) - base_pages

\* C16: once capture has started the context holds at most one page more than
\* it had then; none at the head of the crawl loop, where the next item is
\* dequeued, and none after the loop; a failure in the navigation or the
\* harvest of a crawled page leads to the close of the page, and the close
\* removes one page
C16_OneCrawlPage ==
  /\ [](listening => CrawlPagesOpen \in {0, 1})
  /\ [](pc = "crawl_head" => CrawlPagesOpen = 0)
  /\ []((listening /\ pc \in {"close", "pw_exit", "dedup", "write", "returned", "exited"})
          => CrawlPagesOpen = 0)
  /\ [][crawl_errs' > crawl_errs => pc' = "c_close" /\ pages' = pages]_vars
  /\ [][(pc = "c_close" /\ pc' # pc) =>
          /\ Len(pages') = Len(pages) - 1
          /\ pc' = "crawl_head"]_vars

\* the loop head after a page that failed and a page that did not, in a
\* context that held two pages when capture started
C16_Witness ==
  /\ pc = "crawl_head"
  /\ crawl_errs > 0
  /\ linked # {}
  /\ Len(opened) >= 2
  /\ base_pages >= 2
  /\ CrawlPagesOpen = 0

\* the pages of the site, and the resolved targets of their anchor tags
SitePages == {Home, PageA, PageB, PageC, Root, EvilX, AppLogin}

AnchorURLs ==
  UNION {{urljoin(p, Dom(p, TRUE)[i].val) :
            i \in {j \in 1..Len(Dom(p, TRUE)) :
                     Dom(p, TRUE)[j].tag = "a" /\ Dom(p, TRUE)[j].val # EmptyStr}} :
         p \in SitePages}

\* C17: with or without the same-origin restriction every URL that is a crawl
\* link, is queued or is opened by the crawl is the target of an anchor tag
\* and has the scheme and host[:port] of the base origin; without the
\* restriction a cross-origin anchor of a harvested page is an endpoint
C17_CrawlOnlySameOriginAnchors ==
  /\ \A u \in Range(queue) \cup Range(opened) \cup seeds \cup linked \cup Range(crawl_links) :
       /\ OriginOf(u) = OriginOf(base_origin)
       /\ u \in AnchorURLs
  /\ (~same_origin /\ dashboard_url = Home /\ PageC \in linked) =>
       \E i \in 1..Len(endpoints) : endpoints[i] = DomEp(EvilX)

\* an any-origin crawl has ended: the cross-origin anchor of page /a and the
\* form action of page /b are endpoints, and neither was opened
C17_Witness ==
  /\ ~same_origin
  /\ CrawlDone
  /\ \E i \in 1..Len(endpoints) : endpoints[i] = DomEp(EvilX)
  /\ \E i \in 1..Len(endpoints) :
       endpoints[i] = DomEp(<<"https", Sep, "app", "/api/", "/users">>)
  /\ EvilX \notin Range(opened)
  /\ Len(opened) >= 3

\* C18: at the head of the crawl loop no queued URL is in visited; the URL
\* dequeued there is therefore not in visited, it is added to it and a page is
\* opened for it (the skip branch is not taken); the dashboard URL is never
\* opened by the crawl
C18_QueueVisitedDisjoint ==
  /\ [](pc = "crawl_head" => Range(queue) \cap visited = {})
  /\ [][(pc = "crawl_head" /\ queue # << >>) =>
          /\ Head(queue) \notin visited
          /\ visited' = visited \cup {Head(queue)}
          /\ pc' = "c_goto"]_vars
  /\ [](dashboard_url \notin Range(opened))

\* the loop head with a frontier, after the dashboard page and a crawled page
\* both linked to the dashboard URL
C18_Witness ==
  /\ pc = "crawl_head"
  /\ queue # << >>
  /\ dashboard_url \in seeds
  /\ dashboard_url \in linked
  /\ opened # << >>

\* a crawled page is being navigated to or harvested
InCrawlPage == frame = "crawl" /\ pc \in {"c_goto", "h1", "scroll", "h2"}

\* C19: a failure of the navigation, of either pass or of the scroll of a
\* crawled page leaves the endpoint collection, the queue and the set of
\* returned links as they are and drops what the first pass had found; while
\* a crawled page is in progress the collection changes only by an endpoint
\* the callback appends or, at the successful return, by the batch of both
\* passes of that page; what was collected stays in place
C19_CrawlPageAllOrNothing ==
  /\ [][crawl_errs' > crawl_errs =>
          /\ endpoints' = endpoints
          /\ queue' = queue
          /\ linked' = linked
          /\ dom_endpoints' = << >>
          /\ crawl_links' = << >>]_vars
  /\ [][(InCrawlPage /\ endpoints' # endpoints) =>
          \/ \E req \in Requests : endpoints' = Append(endpoints, NetEp(req))
          \/ /\ pc = "h2" /\ pc' = "c_close" /\ crawl_errs' = crawl_errs
             /\ endpoints' = endpoints \o dom_endpoints
                  \o collect_dom_links(pages[cur], Dom(pages[cur], TRUE),
                                       base_origin, same_origin).found]_vars
  /\ [][(InCrawlPage /\ pc = "h1" /\ pc' = "scroll") =>
          dom_endpoints' = collect_dom_links(pages[cur], Dom(pages[cur], FALSE),
                                             base_origin, same_origin).found]_vars
  /\ [][(InCrawlPage \/ pc = "c_close") => IsPrefix(endpoints, endpoints')]_vars

\* page /b was opened first and navigated to, its harvest failed, and a
\* request captured meanwhile is the last endpoint: the form action of /b
\* is not among the endpoints
C19_Witness ==
  /\ pc = "c_close"
  /\ crawl_errs = 1
  /\ opened = <<PageB>>
  /\ pages[cur] = PageB
  /\ endpoints # << >>
  /\ endpoints[Len(endpoints)].source = "network"
  /\ \E i \in 1..Len(endpoints) : endpoints[i].source = "dom"
  /\ \A i \in 1..Len(endpoints) :
       endpoints[i].url # <<"https", Sep, "app", "/api/", "/users">>

\* the login URL has the scheme and host[:port] of the dashboard URL
LoginSameOrigin ==
  /\ login_url # EmptyStr
  /\ OriginOf(login_url) = OriginOf(dashboard_url)

\* the locator has been entered and has returned or raised
LocatorLeft == locState # "Idle" /\ pc # "loc_check"

\* C20: with a login URL of the dashboard's origin and a positive timeout the
\* locator ends in Found, at its first poll, at once, with the login page as
\* the page it returns and without any page having navigated or opened; with
\* a timeout of zero or less it ends in TimedOut without a poll, also when
\* the login page matches the target
C20_LoginPageFoundAtOnce ==
  /\ (locState = "Waiting" /\ LoginSameOrigin /\ timeout > 0) ~> (locState = "Found")
  /\ []((LocatorLeft /\ LoginSameOrigin /\ timeout > 0) =>
          /\ locState = "Found"
          /\ polls = 1
          /\ now = 0
          /\ env_count = 0
          /\ dash = 1
          /\ pages[dash] = login_url)
  /\ (locState = "Waiting" /\ timeout <= 0) ~> (locState = "TimedOut")
  /\ []((LocatorLeft /\ timeout <= 0) =>
          /\ locState = "TimedOut"
          /\ exc = "TimeoutError"
          /\ polls = 0
          /\ env_count = 0
          /\ dash = 0)

\* the same-origin login page was returned at the first poll
C20_Witness ==
  /\ locState = "Found"
  /\ pc = "ready"
  /\ login = AppLogin
  /\ polls = 1
  /\ pages = <<AppLogin>>
  /\ dash = 1

\* TimedOut with a zero timeout while the only open page matches the target
C20_WitnessTimedOut ==
  /\ locState = "TimedOut"
  /\ timeout = 0
  /\ polls = 0
  /\ pages = <<AppLogin>>
  /\ MatchesTarget(pages[1])

====
